---------------------------- MODULE Spec2Model ----------------------------
(***************************************************************************)
(* A model of the stela lexical scanner: the Lexer class (rule list,       *)
(* pattern compilation, the tokenize scan loop) and the TokenStream        *)
(* cursor.  Strings are sequences of one-character strings; a regular      *)
(* expression is its source, parsed into alternatives of atoms, with its   *)
(* flags.                                                                  *)
(***************************************************************************)
EXTENDS Integers, Sequences, FiniteSets, TLC

VARIABLES
    rules,        \* Lexer.rules
    config,       \* Lexer.config: skipWhitespace, caseSensitive
    wsLastIndex,  \* lastIndex of the RegExp held in config.skipWhitespace
    registered,   \* history: the rules in registration order, removed ones dropped
    pc,           \* "idle", "scan" (inside tokenize), "done", "threw"
    source,       \* tokenize: the argument
    offset,       \* tokenize: let offset
    line,         \* tokenize: let line
    column,       \* tokenize: let column
    tokens,       \* tokenize: const tokens
    spans,        \* history: what each iteration of the scan loop consumed
    last,         \* history: what the latest iteration of the scan loop did
    stream,       \* the TokenStream: tokens, currentIndex, marks
    result,       \* what the latest TokenStream or validateRules call returned
    arg,          \* the argument of the latest TokenStream call: <<>> or <<n>>
    issued,       \* history: the positions mark() has returned on the stream, each
                  \* with the tokens consume would have returned from there
    returned,     \* the array getRules() gave the caller, and the rule list then
    kept,         \* the stream of the previous tokenize call, with the call's
                  \* source and the Lexer's rules and configuration then
    asked         \* history: the settings the caller has supplied last

lexerVars == <<rules, config, wsLastIndex, registered>>
scanVars == <<pc, source, offset, line, column, tokens, spans, last>>
streamVars == <<stream, result, arg, issued>>
callerVars == <<returned, kept, asked>>
vars == <<rules, config, wsLastIndex, registered, pc, source, offset, line,
          column, tokens, spans, last, stream, result, arg, issued, returned, kept,
          asked>>

---------------------------------------------------------------------------
(* Bounds *)

MaxLen == 2

MaxRules == 2

MaxTokens == 3

MaxMarks == 2

---------------------------------------------------------------------------
(* Characters and strings *)

NL == "\n"

Alphabet == {"a", "A", "b", " ", NL}

Sources == UNION {[1..n -> Alphabet] : n \in 0..MaxLen}

\* /\s/.test(char) on the characters of the alphabet
IsWhitespace(c) == c \in {" ", NL}

\* case folding of the "i" flag
Fold(c) == IF c = "A" THEN "a" ELSE c

\* source.slice(from): the text from the 0-based index on
Slice(s, from) == SubSeq(s, from + 1, Len(s))

---------------------------------------------------------------------------
(* Regular expressions *)

Bol == [kind |-> "bol", chars |-> {}, rep |-> "one"]

Ch(c) == [kind |-> "set", chars |-> {c}, rep |-> "one"]

Star(cs) == [kind |-> "set", chars |-> cs, rep |-> "star"]

RegExp(alts, flags) == [kind |-> "regexp", alts |-> alts, flags |-> flags, text |-> <<>>]

Str(text) == [kind |-> "string", alts |-> <<>>, flags |-> {}, text |-> text]

Fn == [kind |-> "function", alts |-> <<>>, flags |-> {}, text |-> <<>>]

NoMatch == [found |-> FALSE, index |-> 0, text |-> <<>>]

AtomAccepts(atom, c, flags) ==
    \E d \in atom.chars : IF "i" \in flags THEN Fold(c) = Fold(d) ELSE c = d

RECURSIVE RunLength(_, _, _, _)
\* how many characters from the 0-based index i on the atom accepts
RunLength(atom, s, i, flags) ==
    IF i < Len(s) /\ AtomAccepts(atom, s[i + 1], flags)
    THEN 1 + RunLength(atom, s, i + 1, flags)
    ELSE 0

RECURSIVE MatchAtoms(_, _, _, _, _)
RECURSIVE TryStar(_, _, _, _, _, _)
\* the end index of the match of atoms k.. at the 0-based index i, or -1
MatchAtoms(atoms, k, s, i, flags) ==
    IF k > Len(atoms) THEN i
    ELSE LET a == atoms[k] IN
         IF a.kind = "bol"
         THEN IF i = 0 \/ ("m" \in flags /\ s[i] = NL)
              THEN MatchAtoms(atoms, k + 1, s, i, flags)
              ELSE -1
         ELSE IF a.rep = "one"
         THEN IF i < Len(s) /\ AtomAccepts(a, s[i + 1], flags)
              THEN MatchAtoms(atoms, k + 1, s, i + 1, flags)
              ELSE -1
         ELSE TryStar(atoms, k, s, i, RunLength(a, s, i, flags), flags)

\* a greedy star: the longest run first, then shorter ones
TryStar(atoms, k, s, i, n, flags) ==
    LET e == MatchAtoms(atoms, k + 1, s, i + n, flags) IN
    IF e >= 0 THEN e
    ELSE IF n = 0 THEN -1
    ELSE TryStar(atoms, k, s, i, n - 1, flags)

RECURSIVE MatchAlts(_, _, _, _, _)
\* the end index of the first alternative from j on that matches at i, or -1
MatchAlts(alts, j, s, i, flags) ==
    IF j > Len(alts) THEN -1
    ELSE LET e == MatchAtoms(alts[j], 1, s, i, flags) IN
         IF e >= 0 THEN e ELSE MatchAlts(alts, j + 1, s, i, flags)

RECURSIVE ExecFrom(_, _, _)
\* the leftmost match of the expression in s at or after the 0-based index i
ExecFrom(re, s, i) ==
    IF i > Len(s) THEN NoMatch
    ELSE LET e == MatchAlts(re.alts, 1, s, i, re.flags) IN
         IF e >= 0
         THEN [found |-> TRUE, index |-> i, text |-> SubSeq(s, i + 1, e)]
         ELSE ExecFrom(re, s, i + 1)

\* String.prototype.match with an expression that has no "g" flag
StringMatch(s, re) == ExecFrom(re, s, 0)

\* RegExp.prototype.test: the result and the expression's lastIndex afterwards
RegExpTest(re, s, lastIndex) ==
    IF "g" \in re.flags
    THEN IF lastIndex > Len(s)
         THEN [matched |-> FALSE, lastIndex |-> 0]
         ELSE LET m == ExecFrom(re, s, lastIndex) IN
              IF m.found
              THEN [matched |-> TRUE, lastIndex |-> m.index + Len(m.text)]
              ELSE [matched |-> FALSE, lastIndex |-> 0]
    ELSE [matched |-> StringMatch(s, re).found, lastIndex |-> lastIndex]

---------------------------------------------------------------------------
(* Rules *)

\* pattern.source.startsWith("^")
StartsWithCaret(alts) == Len(alts[1]) > 0 /\ alts[1][1].kind = "bol"

\* `^${pattern.source}`: the caret goes in front of the first alternative
Anchor(alts) == [j \in 1..Len(alts) |-> IF j = 1 THEN <<Bol>> \o alts[1] ELSE alts[j]]

\* pattern.replace(/[.*+?^${}()|[\]\\]/g, "\\$&"): every character a literal
Escape(text) == [i \in 1..Len(text) |-> Ch(text[i])]

Compiled(re) == [threw |-> FALSE, regexp |-> re]

\* a function has no replace method: the string branch throws a TypeError
CompileThrew == [threw |-> TRUE, regexp |-> RegExp(<<<<>>>>, {})]

\* CompilePattern without the case adjustment of a RegExp's flags
CompilePatternOwnFlags(pattern, caseSensitive) ==
    IF pattern.kind = "regexp"
    THEN Compiled(RegExp(IF StartsWithCaret(pattern.alts) THEN pattern.alts
                         ELSE Anchor(pattern.alts),
                         pattern.flags \ {"g"}))
    ELSE IF pattern.kind = "string"
    THEN Compiled(RegExp(<<<<Bol>> \o Escape(pattern.text)>>,
                         IF caseSensitive THEN {} ELSE {"i"}))
    ELSE CompileThrew

CompilePattern(pattern, caseSensitive) ==
    IF pattern.kind = "regexp"
    THEN LET flags0 == pattern.flags \ {"g"}
             flags1 == IF caseSensitive /\ "i" \in flags0 THEN flags0 \ {"i"} ELSE flags0
             flags2 == IF ~caseSensitive /\ "i" \notin flags1 THEN flags1 \cup {"i"} ELSE flags1
             src == IF StartsWithCaret(pattern.alts) THEN pattern.alts ELSE Anchor(pattern.alts)
         IN  Compiled(RegExp(src, flags2))
    ELSE IF pattern.kind = "string"
    THEN Compiled(RegExp(<<<<Bol>> \o Escape(pattern.text)>>,
                         IF caseSensitive THEN {} ELSE {"i"}))
    ELSE CompileThrew

\* rule.precedence ?? 0
Prec(rule) == IF rule.precedence = <<>> THEN 0 ELSE rule.precedence[1]

Rule(type, pattern, precedence, action) ==
    [type |-> type, pattern |-> pattern, precedence |-> precedence, action |-> action]

\* "a"
RuleA == Rule("A", Str(<<"a">>), <<>>, "none")

\* /[a\n]*/
RuleRun == Rule("RUN", RegExp(<<<<Star({"a", NL})>>>>, {}), <<0>>, "none")

\* /a|b/g, precedence 1
RuleAlt == Rule("ALT", RegExp(<<<<Ch("a")>>, <<Ch("b")>>>>, {"g"}), <<1>>, "none")

\* /^A/im, with an action that builds the token at the position it is given
RuleCI == Rule("A", RegExp(<<<<Bol, Ch("A")>>>>, {"i", "m"}), <<0>>, "keep")

\* a custom matcher function
RuleFn == Rule("FN", Fn, <<>>, "none")

\* "b", with an action that builds the token at a position of its own
RuleMoved == Rule("B", Str(<<"b">>), <<-1>>, "moved")

\* " ", with an action that returns null
RuleDrop == Rule("SPACE", Str(<<" ">>), <<>>, "null")

RulePool == {RuleA, RuleRun, RuleAlt, RuleCI, RuleFn, RuleMoved, RuleDrop}

RuleLists == UNION {[1..n -> RulePool] : n \in 0..MaxRules}

RECURSIVE InsertRuleUnstable(_, _)
\* InsertRule of a sort that is not stable: the new rule goes before its equals
InsertRuleUnstable(sorted, rule) ==
    IF sorted = <<>> THEN <<rule>>
    ELSE LET n == Len(sorted) IN
         IF Prec(sorted[n]) > Prec(rule)
         THEN Append(sorted, rule)
         ELSE Append(InsertRuleUnstable(SubSeq(sorted, 1, n - 1), rule), sorted[n])

RECURSIVE InsertRule(_, _)
\* where a stable sort by (b.precedence ?? 0) - (a.precedence ?? 0) puts a
\* rule that comes after the rules of the sorted list
InsertRule(sorted, rule) ==
    IF sorted = <<>> THEN <<rule>>
    ELSE LET n == Len(sorted) IN
         IF Prec(sorted[n]) >= Prec(rule)
         THEN Append(sorted, rule)
         ELSE Append(InsertRule(SubSeq(sorted, 1, n - 1), rule), sorted[n])

RECURSIVE SortRules(_)
\* rules.sort((a, b) => (b.precedence ?? 0) - (a.precedence ?? 0)); the sort is stable
SortRules(list) ==
    IF list = <<>> THEN <<>>
    ELSE InsertRule(SortRules(SubSeq(list, 1, Len(list) - 1)), list[Len(list)])

RECURSIVE FilterRules(_, _)
\* rules.filter((rule) => rule.type !== type)
FilterRules(list, type) ==
    IF list = <<>> THEN <<>>
    ELSE IF list[1].type # type
    THEN <<list[1]>> \o FilterRules(Tail(list), type)
    ELSE FilterRules(Tail(list), type)

---------------------------------------------------------------------------
(* Lexer configuration *)

\* / /g
SpaceGlobal == RegExp(<<<<Ch(" ")>>>>, {"g"})

SkipNever == [kind |-> "false", alts |-> <<>>, flags |-> {}, text |-> <<>>]

SkipAll == [kind |-> "true", alts |-> <<>>, flags |-> {}, text |-> <<>>]

SkipSettings == {SkipAll, SkipNever, SpaceGlobal}

Configs == [skipWhitespace : SkipSettings, caseSensitive : BOOLEAN]

---------------------------------------------------------------------------
(* Tokens and the TokenStream *)

Position(l, c, o) == [line |-> l, column |-> c, offset |-> o]

Token(type, value, position, metadata) ==
    [type |-> type, value |-> value, position |-> position, metadata |-> metadata]

\* new TokenStreamImpl(tokens)
NewTokenStream(toks) == [tokens |-> toks, currentIndex |-> 0, marks |-> <<>>]

\* a TokenStream call: its name, the cursor it started at, what it returned
\* (<<>> stands for null or no value, <<v>> for the value v)
Result(op, at, value) == [op |-> op, at |-> at, value |-> value]

NoResult == Result("none", 0, <<>>)

\* a stream nothing has been called on
Fresh == result = NoResult /\ arg = <<>> /\ issued = {}

NoArray == [rules |-> <<>>, array |-> <<>>]

NoKept == [stream |-> NewTokenStream(<<>>), source |-> <<>>, rules |-> <<>>, config |-> <<>>]

\* the caller holds nothing of the Lexer yet
NothingHeld == returned = NoArray /\ kept = NoKept

---------------------------------------------------------------------------
(* Lexer: construction *)

NoStep == [kind |-> "none", at |-> 0, rule |-> 0, text |-> <<>>]

NoStream == NewTokenStream(<<>>)

\* the tokenize call frame when no call is in progress
NoCall ==
    /\ pc = "idle" /\ source = <<>> /\ offset = 0 /\ line = 1 /\ column = 1
    /\ tokens = <<>> /\ spans = <<>> /\ last = NoStep

\* new Lexer({rules: cfgRules, skipWhitespace, caseSensitive})
Constructor(cfgRules, cfg) ==
    /\ rules = SortRules(cfgRules)
    /\ config = cfg
    /\ wsLastIndex = 0
    /\ registered = cfgRules
    /\ asked = cfg

\* a Lexer constructed from any rule list and configuration
InitRules ==
    /\ \E cfgRules \in RuleLists, cfg \in Configs : Constructor(cfgRules, cfg)
    /\ NoCall
    /\ stream = NoStream
    /\ Fresh
    /\ NothingHeld

\* tokenize reads this.rules and this.config only, and every value of
\* this.rules is the one the constructor leaves when given that list itself
Init ==
    /\ \E cfgRules \in RuleLists, cfg \in Configs :
          /\ SortRules(cfgRules) = cfgRules
          /\ Constructor(cfgRules, cfg)
    /\ NoCall
    /\ stream = NoStream
    /\ Fresh
    /\ NothingHeld

---------------------------------------------------------------------------
(* Lexer.tokenize *)

\* the whitespace test of one iteration: whether the character is skipped,
\* and the skip expression's lastIndex afterwards
WsTest(skip, c, lastIndex) ==
    IF skip.kind = "false" THEN [matched |-> FALSE, lastIndex |-> lastIndex]
    ELSE IF skip.kind = "true" THEN [matched |-> IsWhitespace(c), lastIndex |-> lastIndex]
    ELSE RegExpTest(skip, <<c>>, lastIndex)

RECURSIVE TryRulesEmptyToo(_, _, _, _)
\* TryRules without the `&& match[0]` test: an empty match counts as a match
TryRulesEmptyToo(rs, k, remaining, caseSensitive) ==
    IF k > Len(rs) THEN [kind |-> "none", rule |-> 0, text |-> <<>>]
    ELSE LET c == CompilePattern(rs[k].pattern, caseSensitive) IN
         IF c.threw THEN [kind |-> "throw", rule |-> k, text |-> <<>>]
         ELSE LET m == StringMatch(remaining, c.regexp) IN
              IF m.found
              THEN [kind |-> "match", rule |-> k, text |-> m.text]
              ELSE TryRulesEmptyToo(rs, k + 1, remaining, caseSensitive)

RECURSIVE TryRulesLast(_, _, _, _)
\* TryRules without the break: the last rule that matches wins
TryRulesLast(rs, k, remaining, caseSensitive) ==
    IF k > Len(rs) THEN [kind |-> "none", rule |-> 0, text |-> <<>>]
    ELSE LET c == CompilePattern(rs[k].pattern, caseSensitive) IN
         IF c.threw THEN [kind |-> "throw", rule |-> k, text |-> <<>>]
         ELSE LET m == StringMatch(remaining, c.regexp)
                  later == TryRulesLast(rs, k + 1, remaining, caseSensitive)
              IN  IF later.kind = "none" /\ m.found /\ m.text # <<>>
                  THEN [kind |-> "match", rule |-> k, text |-> m.text]
                  ELSE later

RECURSIVE TryRules(_, _, _, _)
\* the for loop over this.rules from rule k on: the first rule whose
\* compilation throws or whose match is a non-empty text
TryRules(rs, k, remaining, caseSensitive) ==
    IF k > Len(rs) THEN [kind |-> "none", rule |-> 0, text |-> <<>>]
    ELSE LET c == CompilePattern(rs[k].pattern, caseSensitive) IN
         IF c.threw THEN [kind |-> "throw", rule |-> k, text |-> <<>>]
         ELSE LET m == StringMatch(remaining, c.regexp) IN
              IF m.found /\ m.text # <<>>
              THEN [kind |-> "match", rule |-> k, text |-> m.text]
              ELSE TryRules(rs, k + 1, remaining, caseSensitive)

\* (matchedText.match(/\n/g) || []).length
Newlines(text) == Cardinality({i \in 1..Len(text) : text[i] = NL})

\* matchedText.lastIndexOf("\n"), 0-based
LastNewlineIndex(text) ==
    LET at == {i \in 1..Len(text) : text[i] = NL} IN
    IF at = {} THEN -1 ELSE (CHOOSE i \in at : \A j \in at : j <= i) - 1

\* TokenOf with a default token that does not carry the start position
TokenOfFixedPosition(rule, text, position) ==
    IF rule.action = "none" THEN <<Token(rule.type, text, Position(1, 1, 0), <<>>)>>
    ELSE IF rule.action = "keep" THEN <<Token(rule.type, text, position, <<"action">>)>>
    ELSE IF rule.action = "moved" THEN <<Token(rule.type, text, Position(1, 1, 0), <<"action">>)>>
    ELSE <<>>

\* TokenOf with the default token in place of the null an action returns
TokenOfNeverNull(rule, text, position) ==
    IF rule.action \in {"none", "null"} THEN <<Token(rule.type, text, position, <<>>)>>
    ELSE IF rule.action = "keep" THEN <<Token(rule.type, text, position, <<"action">>)>>
    ELSE <<Token(rule.type, text, Position(1, 1, 0), <<"action">>)>>

\* the token of a match: rule.action(matchedText, startPosition) or the
\* default token; <<>> stands for null
TokenOf(rule, text, position) ==
    IF rule.action = "none" THEN <<Token(rule.type, text, position, <<>>)>>
    ELSE IF rule.action = "keep" THEN <<Token(rule.type, text, position, <<"action">>)>>
    ELSE IF rule.action = "moved" THEN <<Token(rule.type, text, Position(1, 1, 0), <<"action">>)>>
    ELSE <<>>

\* ErrorTokenOf with another type tag
ErrorTokenOfUnknown(c, position) ==
    Token("UNKNOWN", <<c>>, position, <<"Unexpected character: ", c>>)

ErrorTokenOf(c, position) ==
    Token("ERROR", <<c>>, position, <<"Unexpected character: ", c>>)

Span(kind, start, len) == [kind |-> kind, start |-> start, len |-> len]

Step(kind, at, rule, text) == [kind |-> kind, at |-> at, rule |-> rule, text |-> text]

\* Tokenize that validates the rule set first and throws when it is empty
TokenizeValidated(src) ==
    /\ pc = "idle"
    /\ pc' = IF rules = <<>> THEN "threw" ELSE "scan"
    /\ source' = src
    /\ offset' = 0 /\ line' = 1 /\ column' = 1
    /\ tokens' = <<>> /\ spans' = <<>> /\ last' = NoStep
    /\ UNCHANGED <<lexerVars, streamVars, callerVars>>

\* the call: tokenize(src)
Tokenize(src) ==
    /\ pc = "idle"
    /\ pc' = "scan"
    /\ source' = src
    /\ offset' = 0 /\ line' = 1 /\ column' = 1
    /\ tokens' = <<>> /\ spans' = <<>> /\ last' = NoStep
    /\ UNCHANGED <<lexerVars, streamVars, callerVars>>

InLoop == pc = "scan" /\ offset < Len(source)

Char == source[offset + 1]

Ws == WsTest(config.skipWhitespace, Char, wsLastIndex)

Hit == TryRules(rules, 1, Slice(source, offset), config.caseSensitive)

\* an iteration that skips a whitespace character
SkipWhitespace ==
    /\ InLoop
    /\ Ws.matched
    /\ IF Char = NL
       THEN line' = line + 1 /\ column' = 1
       ELSE line' = line /\ column' = column + 1
    /\ offset' = offset + 1
    /\ wsLastIndex' = Ws.lastIndex
    /\ spans' = Append(spans, Span("ws", offset, 1))
    /\ last' = Step("ws", offset, 0, <<Char>>)
    /\ UNCHANGED <<rules, config, registered, pc, source, tokens, streamVars, callerVars>>

\* an iteration in which a rule matches
MatchRule ==
    /\ InLoop
    /\ ~Ws.matched
    /\ Hit.kind = "match"
    /\ LET text == Hit.text
           newlines == Newlines(text)
       IN  /\ tokens' = tokens \o TokenOf(rules[Hit.rule], text, Position(line, column, offset))
           /\ IF newlines > 0
              THEN line' = line + newlines /\ column' = Len(text) - LastNewlineIndex(text)
              ELSE line' = line /\ column' = column + Len(text)
           /\ offset' = offset + Len(text)
           /\ spans' = Append(spans, Span("match", offset, Len(text)))
           /\ last' = Step("match", offset, Hit.rule, text)
    /\ wsLastIndex' = Ws.lastIndex
    /\ UNCHANGED <<rules, config, registered, pc, source, streamVars, callerVars>>

\* ErrorToken with offset += 2
ErrorTokenSkipsTwo ==
    /\ pc = "scan" /\ offset < Len(source)
    /\ ~WsTest(config.skipWhitespace, source[offset + 1], wsLastIndex).matched
    /\ TryRules(rules, 1, Slice(source, offset), config.caseSensitive).kind = "none"
    /\ tokens' = Append(tokens, ErrorTokenOf(source[offset + 1], Position(line, column, offset)))
    /\ offset' = offset + 2
    /\ column' = column + 1
    /\ spans' = Append(spans, Span("error", offset, 1))
    /\ last' = Step("error", offset, 0, <<source[offset + 1]>>)
    /\ wsLastIndex' = WsTest(config.skipWhitespace, source[offset + 1], wsLastIndex).lastIndex
    /\ UNCHANGED <<rules, config, registered, pc, source, line, streamVars, callerVars>>

\* an iteration in which no rule matches
ErrorToken ==
    /\ InLoop
    /\ ~Ws.matched
    /\ Hit.kind = "none"
    /\ tokens' = Append(tokens, ErrorTokenOf(Char, Position(line, column, offset)))
    /\ offset' = offset + 1
    /\ column' = column + 1
    /\ spans' = Append(spans, Span("error", offset, 1))
    /\ last' = Step("error", offset, 0, <<Char>>)
    /\ wsLastIndex' = Ws.lastIndex
    /\ UNCHANGED <<rules, config, registered, pc, source, line, streamVars, callerVars>>

\* an iteration in which compilePattern throws: tokenize ends with the exception
CompileThrows ==
    /\ InLoop
    /\ ~Ws.matched
    /\ Hit.kind = "throw"
    /\ pc' = "threw"
    /\ last' = Step("throw", offset, Hit.rule, <<>>)
    /\ wsLastIndex' = Ws.lastIndex
    /\ UNCHANGED <<rules, config, registered, source, offset, line, column, tokens,
                   spans, streamVars, callerVars>>

\* the loop ends: return new TokenStreamImpl(tokens)
Finish ==
    /\ pc = "scan"
    /\ offset >= Len(source)
    /\ pc' = "done"
    /\ stream' = NewTokenStream(tokens)
    /\ result' = NoResult
    /\ arg' = <<>>
    /\ issued' = {}
    /\ UNCHANGED <<lexerVars, callerVars, source, offset, line, column, tokens, spans, last>>

ScanStep == SkipWhitespace \/ MatchRule \/ ErrorToken

Loop == ScanStep \/ CompileThrows \/ Finish

Next ==
    \/ \E src \in Sources : Tokenize(src)
    \/ SkipWhitespace
    \/ MatchRule
    \/ ErrorToken
    \/ CompileThrows
    \/ Finish

Spec == Init /\ [][Next]_vars

---------------------------------------------------------------------------
(* Lexer.tokenize with rules that suppress their matches *)

\* /[ \n]*/ with an action that returns null
RuleSkip == Rule("SKIP", RegExp(<<<<Star({" ", NL})>>>>, {}), <<0>>, "null")

SuppressRules == {RuleSkip, RuleDrop, RuleRun, RuleA}

\* a Lexer constructed from a sorted list of these rules
InitSuppress ==
    /\ \E cfgRules \in UNION {[1..n -> SuppressRules] : n \in 0..MaxRules}, cfg \in Configs :
          /\ SortRules(cfgRules) = cfgRules
          /\ Constructor(cfgRules, cfg)
    /\ NoCall
    /\ stream = NoStream
    /\ Fresh
    /\ NothingHeld

NextSuppress ==
    \/ \E src \in Sources : Tokenize(src)
    \/ SkipWhitespace
    \/ MatchRule
    \/ ErrorToken
    \/ Finish

SpecSuppress == InitSuppress /\ [][NextSuppress]_vars

---------------------------------------------------------------------------
(* Lexer.addRule, Lexer.removeRule *)

RuleTypes == {r.type : r \in RulePool}

AddRule(rule) ==
    /\ pc = "idle"
    /\ Len(rules) <= MaxRules
    /\ rules' = SortRules(Append(rules, rule))
    /\ registered' = Append(registered, rule)
    /\ UNCHANGED <<config, wsLastIndex, scanVars, streamVars, callerVars>>

RemoveRule(type) ==
    /\ pc = "idle"
    /\ rules' = FilterRules(rules, type)
    /\ registered' = FilterRules(registered, type)
    /\ UNCHANGED <<config, wsLastIndex, scanVars, streamVars, callerVars>>

---------------------------------------------------------------------------
(* Lexer.validateRules *)

\* a message with the rule type it names, if any
Message(text, type) == [text |-> text, type |-> type]

NoRulesError == Message("No token rules defined", <<>>)

RECURSIVE TypesInOrder(_)
\* the keys of the Map ruleTypes, in the order the loop has set them
TypesInOrder(list) ==
    IF list = <<>> THEN <<>>
    ELSE LET n == Len(list)
             before == TypesInOrder(SubSeq(list, 1, n - 1))
         IN  IF \E i \in 1..Len(before) : before[i] = list[n].type
             THEN before
             ELSE Append(before, list[n].type)

\* ruleTypes.get(type)
Count(list, type) == Cardinality({i \in 1..Len(list) : list[i].type = type})

RECURSIVE Warnings(_, _)
\* the second loop: one warning for every key counted more than once
Warnings(list, types) ==
    IF types = <<>> THEN <<>>
    ELSE (IF Count(list, types[1]) > 1
          THEN <<Message("Multiple rules defined for type", <<types[1]>>)>>
          ELSE <<>>) \o Warnings(list, Tail(types))

RECURSIVE CompileErrors(_, _)
\* the third loop: one error for every rule whose compilePattern call throws
CompileErrors(list, caseSensitive) ==
    IF list = <<>> THEN <<>>
    ELSE (IF CompilePattern(list[1].pattern, caseSensitive).threw
          THEN <<Message("Invalid pattern for rule", <<list[1].type>>)>>
          ELSE <<>>) \o CompileErrors(Tail(list), caseSensitive)

ValidationResult(errors, warnings) ==
    [valid |-> Len(errors) = 0, errors |-> errors, warnings |-> warnings]

\* ValidateRules with a result that is valid only when there are no warnings either
ValidateRulesStrict ==
    /\ pc = "idle"
    /\ LET errors == (IF Len(rules) = 0 THEN <<NoRulesError>> ELSE <<>>)
                         \o CompileErrors(rules, config.caseSensitive)
           warnings == Warnings(rules, TypesInOrder(rules))
       IN  result' = Result("validateRules", 0,
                            <<[ValidationResult(errors, warnings) EXCEPT
                                  !.valid = Len(errors) = 0 /\ Len(warnings) = 0]>>)
    /\ UNCHANGED <<lexerVars, scanVars, stream, arg, issued, callerVars>>

ValidateRules ==
    /\ pc = "idle"
    /\ LET errors == (IF Len(rules) = 0 THEN <<NoRulesError>> ELSE <<>>)
                         \o CompileErrors(rules, config.caseSensitive)
           warnings == Warnings(rules, TypesInOrder(rules))
       IN  result' = Result("validateRules", 0, <<ValidationResult(errors, warnings)>>)
    /\ UNCHANGED <<lexerVars, scanVars, stream, arg, issued, callerVars>>

\* validateRules on a Lexer constructed from any rule list and configuration
NextValidate == ValidateRules

SpecValidate == InitRules /\ [][NextValidate]_vars

---------------------------------------------------------------------------
(* The rule list under addRule and removeRule *)

NextRules ==
    \/ \E rule \in RulePool : AddRule(rule)
    \/ \E type \in RuleTypes : RemoveRule(type)

SpecRules == InitRules /\ [][NextRules]_vars

---------------------------------------------------------------------------
(* Lexer.getRules, and what the caller does with the array it returns *)

\* return [...this.rules]: a new array of the same rule objects.  An entry of
\* the array is the position of its rule object in this.rules (no action of
\* SpecShared moves the objects of this.rules), or 0 for a rule object of the
\* caller's own
GetRules ==
    /\ pc = "idle"
    /\ returned' = [rules |-> rules, array |-> [i \in 1..Len(rules) |-> i]]
    /\ UNCHANGED <<lexerVars, scanVars, streamVars, kept, asked>>

\* the caller: array.push(rule)
ArrayPush ==
    /\ returned # NoArray
    /\ Len(returned.array) <= MaxRules
    /\ returned' = [returned EXCEPT !.array = Append(@, 0)]
    /\ UNCHANGED <<lexerVars, scanVars, streamVars, kept, asked>>

\* the caller: array.pop()
ArrayPop ==
    /\ returned.array # <<>>
    /\ returned' = [returned EXCEPT !.array = SubSeq(@, 1, Len(@) - 1)]
    /\ UNCHANGED <<lexerVars, scanVars, streamVars, kept, asked>>

\* the caller: array.reverse()
ArrayReverse ==
    /\ Len(returned.array) >= 2
    /\ returned' = [returned EXCEPT
                       !.array = [i \in 1..Len(@) |-> @[Len(@) + 1 - i]]]
    /\ UNCHANGED <<lexerVars, scanVars, streamVars, kept, asked>>

\* the precedences the caller assigns
NewPrecedences == {-2, 2}

\* the caller: array[i].precedence = p.  The entry is the Lexer's own rule
\* object when it came with the array
SetPrecedence(i, p) ==
    /\ i \in 1..Len(returned.array)
    /\ IF returned.array[i] # 0
       THEN rules' = [rules EXCEPT ![returned.array[i]].precedence = <<p>>]
       ELSE rules' = rules
    /\ returned' = returned
    /\ UNCHANGED <<config, wsLastIndex, registered, scanVars, streamVars, kept, asked>>

\* a Lexer with the default settings and any rule list
InitShared ==
    /\ \E cfgRules \in RuleLists :
          Constructor(cfgRules, [skipWhitespace |-> SkipAll, caseSensitive |-> TRUE])
    /\ NoCall
    /\ stream = NoStream
    /\ Fresh
    /\ NothingHeld

NextShared ==
    \/ GetRules
    \/ ArrayPush
    \/ ArrayPop
    \/ ArrayReverse
    \/ \E i \in 1..(MaxRules + 1), p \in NewPrecedences : SetPrecedence(i, p)

SpecShared == InitShared /\ [][NextShared]_vars

---------------------------------------------------------------------------
(* Lexer.updateConfig, and tokenize called again *)

\* a setting of an updateConfig argument: <<>> stands for undefined
Supplied(values) == {<<>>} \cup {<<v>> : v \in values}

Updates == [skipWhitespace : Supplied(SkipSettings), caseSensitive : Supplied(BOOLEAN)]

\* the settings with the supplied ones of the updates written over them
Updated(settings, updates) ==
    [skipWhitespace |-> IF updates.skipWhitespace # <<>>
                        THEN updates.skipWhitespace[1]
                        ELSE settings.skipWhitespace,
     caseSensitive |-> IF updates.caseSensitive # <<>>
                       THEN updates.caseSensitive[1]
                       ELSE settings.caseSensitive]

\* UpdateConfig that does not store caseSensitive
UpdateConfigKeepsCase(updates) ==
    /\ pc = "idle"
    /\ config' = [Updated(config, updates) EXCEPT !.caseSensitive = config.caseSensitive]
    /\ asked' = Updated(asked, updates)
    /\ UNCHANGED <<rules, wsLastIndex, registered, scanVars, streamVars, returned, kept>>

\* updateConfig(updates); a supplied expression is the object the caller
\* has supplied before, with the lastIndex it has
UpdateConfig(updates) ==
    /\ pc = "idle"
    /\ config' = Updated(config, updates)
    /\ asked' = Updated(asked, updates)
    /\ UNCHANGED <<rules, wsLastIndex, registered, scanVars, streamVars, returned, kept>>

\* the caller keeps the stream tokenize has returned, and the Lexer is free
\* for the next call
Keep ==
    /\ pc = "done"
    /\ kept = NoKept
    /\ kept' = [stream |-> stream, source |-> source, rules |-> rules, config |-> config]
    /\ pc' = "idle"
    /\ source' = <<>>
    /\ offset' = 0 /\ line' = 1 /\ column' = 1
    /\ tokens' = <<>> /\ spans' = <<>> /\ last' = NoStep
    /\ UNCHANGED <<lexerVars, streamVars, returned, asked>>

\* the rules and the sources of the calls
CallRules == {RuleA, RuleAlt}

CallSources == {src \in Sources : Len(src) < MaxLen}

InitCalls ==
    /\ \E cfgRules \in {<<>>} \cup {<<rule>> : rule \in CallRules}, cfg \in Configs :
          Constructor(cfgRules, cfg)
    /\ NoCall
    /\ stream = NoStream
    /\ Fresh
    /\ NothingHeld

\* the second call is on the source of the first
NextCalls ==
    \/ \E src \in CallSources : (kept = NoKept \/ src = kept.source) /\ Tokenize(src)
    \/ SkipWhitespace
    \/ MatchRule
    \/ ErrorToken
    \/ Finish
    \/ Keep
    \/ \E updates \in Updates : kept # NoKept /\ UpdateConfig(updates)
    \/ \E rule \in CallRules : kept # NoKept /\ AddRule(rule)
    \/ \E rule \in CallRules : kept # NoKept /\ RemoveRule(rule.type)

SpecCalls == InitCalls /\ [][NextCalls]_vars

---------------------------------------------------------------------------
(* TokenStream *)

\* a token sequence of length n, as tokenize builds them
SomeTokens(n) == [i \in 1..n |-> Token("A", <<"a">>, Position(1, i, i - 1), <<>>)]

InitStream ==
    /\ Constructor(<<>>, [skipWhitespace |-> SkipAll, caseSensitive |-> TRUE])
    /\ NoCall
    /\ \E n \in 0..MaxTokens : stream = NewTokenStream(SomeTokens(n))
    /\ Fresh
    /\ NothingHeld

\* Peek that counts the offset from the start of the stream
PeekFromStart(k) ==
    /\ LET index == k IN
       result' = Result("peek", stream.currentIndex,
                        IF index >= 0 /\ index < Len(stream.tokens)
                        THEN <<stream.tokens[index + 1]>>
                        ELSE <<>>)
    /\ arg' = <<k>>
    /\ UNCHANGED <<lexerVars, scanVars, callerVars, stream, issued>>

Peek(k) ==
    /\ LET index == stream.currentIndex + k IN
       result' = Result("peek", stream.currentIndex,
                        IF index >= 0 /\ index < Len(stream.tokens)
                        THEN <<stream.tokens[index + 1]>>
                        ELSE <<>>)
    /\ arg' = <<k>>
    /\ UNCHANGED <<lexerVars, scanVars, callerVars, stream, issued>>

\* Consume without the test against tokens.length
ConsumeUnchecked ==
    /\ result' = Result("consume", stream.currentIndex,
                        IF stream.currentIndex < Len(stream.tokens)
                        THEN <<stream.tokens[stream.currentIndex + 1]>>
                        ELSE <<>>)
    /\ stream' = [stream EXCEPT !.currentIndex = @ + 1]
    /\ arg' = <<>>
    /\ UNCHANGED <<lexerVars, scanVars, callerVars, issued>>

Consume ==
    /\ IF stream.currentIndex < Len(stream.tokens)
       THEN /\ result' = Result("consume", stream.currentIndex,
                                <<stream.tokens[stream.currentIndex + 1]>>)
            /\ stream' = [stream EXCEPT !.currentIndex = @ + 1]
       ELSE /\ result' = Result("consume", stream.currentIndex, <<>>)
            /\ stream' = stream
    /\ arg' = <<>>
    /\ UNCHANGED <<lexerVars, scanVars, callerVars, issued>>

RECURSIVE Consumed(_)
\* the tokens that consume() returns on the stream s, call after call, until
\* it returns null
Consumed(s) ==
    IF s.currentIndex < Len(s.tokens)
    THEN <<s.tokens[s.currentIndex + 1]>> \o Consumed([s EXCEPT !.currentIndex = @ + 1])
    ELSE <<>>

HasMore ==
    /\ result' = Result("hasMore", stream.currentIndex,
                        <<stream.currentIndex < Len(stream.tokens)>>)
    /\ arg' = <<>>
    /\ UNCHANGED <<lexerVars, scanVars, callerVars, stream, issued>>

\* Mark that returns the position after the cursor
MarkReturnsNext ==
    /\ Len(stream.marks) < MaxMarks
    /\ LET m == stream.currentIndex + 1 IN
       /\ stream' = [stream EXCEPT !.marks = Append(@, stream.currentIndex)]
       /\ result' = Result("mark", stream.currentIndex, <<m>>)
       /\ issued' = issued \cup {<<m, Consumed(stream)>>}
    /\ arg' = <<>>
    /\ UNCHANGED <<lexerVars, scanVars, callerVars>>

Mark ==
    /\ Len(stream.marks) < MaxMarks
    /\ LET m == stream.currentIndex IN
       /\ stream' = [stream EXCEPT !.marks = Append(@, stream.currentIndex)]
       /\ result' = Result("mark", stream.currentIndex, <<m>>)
       /\ issued' = issued \cup {<<m, Consumed(stream)>>}
    /\ arg' = <<>>
    /\ UNCHANGED <<lexerVars, scanVars, callerVars>>

\* Reset that clamps the position into the range instead of throwing
ResetClamped(position) ==
    /\ LET n == Len(stream.tokens)
           p == IF position < 0 THEN 0 ELSE IF position > n THEN n ELSE position
       IN  /\ stream' = [stream EXCEPT !.currentIndex = p]
           /\ result' = Result("reset", stream.currentIndex, <<>>)
    /\ arg' = <<position>>
    /\ UNCHANGED <<lexerVars, scanVars, callerVars, issued>>

\* reset(position); the value "threw" stands for the Error it throws
Reset(position) ==
    /\ IF position >= 0 /\ position <= Len(stream.tokens)
       THEN /\ stream' = [stream EXCEPT !.currentIndex = position]
            /\ result' = Result("reset", stream.currentIndex, <<>>)
       ELSE /\ stream' = stream
            /\ result' = Result("reset", stream.currentIndex, <<"threw">>)
    /\ arg' = <<position>>
    /\ UNCHANGED <<lexerVars, scanVars, callerVars, issued>>

GetPosition ==
    /\ result' = Result("getPosition", stream.currentIndex, <<stream.currentIndex>>)
    /\ arg' = <<>>
    /\ UNCHANGED <<lexerVars, scanVars, callerVars, stream, issued>>

GetTokens ==
    /\ result' = Result("getTokens", stream.currentIndex, <<stream.tokens>>)
    /\ arg' = <<>>
    /\ UNCHANGED <<lexerVars, scanVars, callerVars, stream, issued>>

\* ClearMarks that also rewinds the cursor
ClearMarksRewinds ==
    /\ stream' = [stream EXCEPT !.marks = <<>>, !.currentIndex = 0]
    /\ result' = Result("clearMarks", stream.currentIndex, <<>>)
    /\ arg' = <<>>
    /\ UNCHANGED <<lexerVars, scanVars, callerVars, issued>>

ClearMarks ==
    /\ stream' = [stream EXCEPT !.marks = <<>>]
    /\ result' = Result("clearMarks", stream.currentIndex, <<>>)
    /\ arg' = <<>>
    /\ UNCHANGED <<lexerVars, scanVars, callerVars, issued>>

Remaining ==
    /\ result' = Result("remaining", stream.currentIndex,
                        <<Len(stream.tokens) - stream.currentIndex>>)
    /\ arg' = <<>>
    /\ UNCHANGED <<lexerVars, scanVars, callerVars, stream, issued>>

PeekOffsets == -1 .. MaxTokens

ResetPositions == -1 .. (MaxTokens + 1)

NextStream ==
    \/ \E k \in PeekOffsets : Peek(k)
    \/ Consume
    \/ HasMore
    \/ Mark
    \/ \E position \in ResetPositions : Reset(position)
    \/ GetPosition
    \/ GetTokens
    \/ ClearMarks
    \/ Remaining

SpecStream == InitStream /\ [][NextStream]_vars

---------------------------------------------------------------------------
(* Properties of Lexer.tokenize *)

Scanning == pc \in {"scan", "done"}

\* whether the rule's compiled matcher gives a non-empty match on the text
\* from the 0-based index at on
Succeeds(rule, at) ==
    LET c == CompilePattern(rule.pattern, config.caseSensitive) IN
    /\ ~c.threw
    /\ LET m == StringMatch(Slice(source, at), c.regexp) IN m.found /\ m.text # <<>>

MatchedText(rule, at) ==
    StringMatch(Slice(source, at), CompilePattern(rule.pattern, config.caseSensitive).regexp).text

SpanKinds == {spans[i].kind : i \in 1..Len(spans)}

Tiles(sp, n) ==
    IF sp = <<>> THEN n = 0
    ELSE /\ sp[1].start = 0
         /\ \A i \in 1..(Len(sp) - 1) : sp[i + 1].start = sp[i].start + sp[i].len
         /\ sp[Len(sp)].start + sp[Len(sp)].len = n

\* C1: when tokenize finishes, the spans it consumed (one per rule match, one
\* character per skipped whitespace character, one character per ERROR token)
\* tile [0, length(source)): the first starts at 0, each next one starts where
\* the previous one ended, the last ends at length(source).
C1_SpansTileSource ==
    pc = "done" =>
        /\ Tiles(spans, Len(source))
        /\ \A i \in 1..Len(spans) :
              /\ spans[i].len >= 1
              /\ spans[i].kind \in {"ws", "error"} => spans[i].len = 1

C1_Witness ==
    /\ pc = "done"
    /\ Len(spans) = 2
    /\ Cardinality(SpanKinds) = 2
    /\ Len(source) = 2

\* C2: tokenize terminates: every iteration of the scan loop (whitespace skip,
\* rule match, error path) increases the offset by at least one and never past
\* the source length, also with a rule whose pattern matches the empty
\* string, and at the source length the loop ends: the only step left is the
\* return.  (length(source) - offset is the variant of the loop.)
C2_ScanTerminates ==
    /\ (Scanning /\ last.kind \in {"ws", "match", "error"}) =>
           offset >= last.at + 1 /\ offset <= Len(source)
    /\ (pc = "scan" /\ offset = Len(source)) => (ENABLED Finish /\ ~ENABLED ScanStep)

\* the rule /[a\n]*/ matched the empty string at the last offset and was passed over
C2_Witness ==
    /\ pc = "done"
    /\ last.kind = "error"
    /\ \E k \in 1..Len(rules) :
          /\ rules[k] = RuleRun
          /\ LET m == StringMatch(Slice(source, last.at),
                                  CompilePattern(RuleRun.pattern, config.caseSensitive).regexp)
             IN  m.found /\ m.text = <<>>

\* C3: a token emitted by a rule with a regular-expression pattern has as value
\* the source text that starts at the token's offset: the rule never succeeds
\* by finding its text further to the right.
C3_RegexPrefixMatched ==
    (Scanning /\ last.kind = "match" /\ rules[last.rule].pattern.kind = "regexp") =>
        SubSeq(source, last.at + 1, last.at + Len(last.text)) = last.text

\* C4: where rule matching is attempted, the token comes from the first rule of
\* the precedence-sorted list whose matcher succeeds there: no earlier rule
\* succeeds, no succeeding rule has a higher precedence, and a later rule is
\* not chosen for matching a longer text.
C4_FirstMatchingRuleWins ==
    (Scanning /\ last.kind = "match") =>
        /\ Succeeds(rules[last.rule], last.at)
        /\ last.text = MatchedText(rules[last.rule], last.at)
        /\ \A j \in 1..(last.rule - 1) : ~Succeeds(rules[j], last.at)
        /\ \A j \in 1..Len(rules) :
              Succeeds(rules[j], last.at) => Prec(rules[j]) <= Prec(rules[last.rule])
        /\ rules[last.rule].action # "null" =>
              /\ tokens # <<>>
              /\ tokens[Len(tokens)].type = rules[last.rule].type
              /\ tokens[Len(tokens)].value = last.text

\* a later rule of the same precedence would have matched a longer text
C4_Witness ==
    /\ Scanning /\ last.kind = "match"
    /\ \E j \in (last.rule + 1)..Len(rules) :
          /\ Succeeds(rules[j], last.at)
          /\ Prec(rules[j]) = Prec(rules[last.rule])
          /\ Len(MatchedText(rules[j], last.at)) > Len(last.text)

---------------------------------------------------------------------------
(* Properties of the rule list *)

SortedByPrecedence(list) ==
    \A i \in 1..(Len(list) - 1) : Prec(list[i]) >= Prec(list[i + 1])

WithPrec(list, p) == SelectSeq(list, LAMBDA r : Prec(r) = p)

Precedences == {Prec(r) : r \in RulePool}

\* C5: after construction and any addRule and removeRule calls the rule list is
\* sorted by precedence descending (a missing precedence is 0), rules of equal
\* precedence are in registration order, and removeRule(type) has removed
\* every rule of the type and kept the order of the others: the list is the
\* registered rules that remain, stably sorted.
C5_RulesSortedStable ==
    /\ SortedByPrecedence(rules)
    /\ \A p \in Precedences : WithPrec(rules, p) = WithPrec(registered, p)

\* three rules, two different ones of equal precedence, not in registration order
C5_Witness ==
    /\ Len(rules) = 3
    /\ rules # registered
    /\ \E i \in 1..2 : Prec(rules[i]) = Prec(rules[i + 1]) /\ rules[i] # rules[i + 1]

---------------------------------------------------------------------------
(* More properties of Lexer.tokenize *)

\* C6: a rule whose pattern is a custom matcher function is tried by calling
\* the function, and matches or not by what it returns: tokenizing with such a
\* rule does not fail.
C6_CustomMatcherDoesNotFail ==
    ~(pc = "threw" /\ rules[last.rule].pattern.kind = "function")

ErrorTokens == {i \in 1..Len(tokens) : tokens[i].type = "ERROR"}

ErrorTokensAt(o) == {i \in ErrorTokens : tokens[i].position.offset = o}

ErrorSpans == {i \in 1..Len(spans) : spans[i].kind = "error"}

NoRuleSucceeds(at) == \A k \in 1..Len(rules) : ~Succeeds(rules[k], at)

\* C7: at every offset that is not skipped as whitespace and where no rule
\* matches (no rule's compiled matcher gives a non-empty match on the text
\* from the offset on), tokenize emits exactly one ERROR token, whose value is the
\* character at that offset and whose position is that offset, advances by
\* exactly one and goes on; there are as many ERROR tokens as such offsets.
C7_OneErrorTokenPerUnmatched ==
    Scanning =>
        /\ \A i \in 1..Len(spans) :
              LET sp == spans[i] IN
              /\ sp.kind = "error" <=> (sp.kind # "ws" /\ NoRuleSucceeds(sp.start))
              /\ sp.kind = "error" =>
                    /\ sp.len = 1
                    /\ Cardinality(ErrorTokensAt(sp.start)) = 1
                    /\ \A t \in ErrorTokensAt(sp.start) :
                          tokens[t].value = <<source[sp.start + 1]>>
        /\ Cardinality(ErrorTokens) = Cardinality(ErrorSpans)
        /\ last.kind = "error" => offset = last.at + 1

\* an unmatched character, and the scan went on after it
C7_Witness ==
    /\ pc = "done"
    /\ \E i \in 1..(Len(spans) - 1) : spans[i].kind = "error" /\ spans[i + 1].kind = "match"

Increasing(toks) ==
    \A i \in 1..(Len(toks) - 1) : toks[i].position.offset < toks[i + 1].position.offset

\* C8 as stated: in the token sequence tokenize returns, position.offset
\* strictly increases, for every rule set, also with actions that build the token.
C8_OffsetsIncrease ==
    pc = "done" => Increasing(stream.tokens)

PassesPosition(rule) == rule.action # "moved"

\* C8 as amended: position.offset strictly increases in the returned sequence
\* when every action of the rule set builds its token at the start position it
\* is given (the default tokens and the ERROR tokens are built there).
C8_OffsetsIncreaseWithGivenPositions ==
    (pc = "done" /\ \A k \in 1..Len(rules) : PassesPosition(rules[k])) =>
        Increasing(stream.tokens)

C8_Witness ==
    /\ pc = "done"
    /\ \A k \in 1..Len(rules) : PassesPosition(rules[k])
    /\ Len(stream.tokens) = 2
    /\ \E i \in 1..2 : stream.tokens[i].metadata = <<"action">>

RECURSIVE Member(_, _, _)
\* whether the whole text is in the language of the atoms, with or without
\* case folding
Member(atoms, text, fold) ==
    IF atoms = <<>> THEN text = <<>>
    ELSE LET a == atoms[1]
             accepted == /\ text # <<>>
                         /\ \E d \in a.chars :
                               IF fold THEN Fold(text[1]) = Fold(d) ELSE text[1] = d
         IN  IF a.kind = "bol" THEN Member(Tail(atoms), text, fold)
             ELSE IF a.rep = "one" THEN accepted /\ Member(Tail(atoms), Tail(text), fold)
             ELSE Member(Tail(atoms), text, fold) \/ (accepted /\ Member(atoms, Tail(text), fold))

\* whether the text is what the pattern describes, in the pattern's own case
\* (fold = FALSE) or in any case (fold = TRUE)
Describes(pattern, text, fold) ==
    IF pattern.kind = "string" THEN Member(Escape(pattern.text), text, fold)
    ELSE \E j \in 1..Len(pattern.alts) : Member(pattern.alts[j], text, fold)

\* the rules the latest iteration tried and found not to match
TriedInVain ==
    IF last.kind \in {"match", "throw"} THEN 1..(last.rule - 1)
    ELSE IF last.kind = "error" THEN 1..Len(rules)
    ELSE {}

NotSkipped == {spans[i].start : i \in {j \in 1..Len(spans) : spans[j].kind # "ws"}}

\* C19: tokenize validates nothing: with an empty rule set it does not fail, and
\* it returns exactly one ERROR token for every source character not skipped
\* as whitespace, in source order, and no other token.  (With skipWhitespace
\* false that is every character, with skipWhitespace true every character
\* that is not whitespace.)
C19_EmptyRuleSetAllErrors ==
    rules = <<>> =>
        /\ pc # "threw"
        /\ pc = "done" =>
              /\ \A i \in 1..Len(spans) : spans[i].kind \in {"ws", "error"} /\ spans[i].len = 1
              /\ Tiles(spans, Len(source))
              /\ Len(stream.tokens) = Cardinality(NotSkipped)
              /\ Increasing(stream.tokens)
              /\ \A j \in 1..Len(stream.tokens) :
                    LET t == stream.tokens[j] IN
                    /\ t.type = "ERROR"
                    /\ t.position.offset \in NotSkipped
                    /\ t.value = <<source[t.position.offset + 1]>>
              /\ config.skipWhitespace = SkipNever => Len(stream.tokens) = Len(source)
              /\ config.skipWhitespace = SkipAll =>
                    NotSkipped = {i - 1 : i \in {j \in 1..Len(source) : ~IsWhitespace(source[j])}}

\* no rules: one character skipped, the other an ERROR token
C19_Witness ==
    /\ rules = <<>>
    /\ pc = "done"
    /\ Len(source) = 2
    /\ spans[1].kind = "ws"
    /\ Len(stream.tokens) = 1

\* the tokens built by tokenize itself: the default tokens and the ERROR tokens
LexerBuilt == {i \in 1..Len(tokens) : tokens[i].metadata # <<"action">>}

\* C20: line and column of every token that tokenize builds itself (default
\* and ERROR tokens) agree with the source: line is 1 + the number of newlines
\* in source[0 .. offset), column is 1 + the number of characters after the
\* last newline before offset; for every skipWhitespace setting, whichever of
\* the three paths consumed the characters before.
C20_LineColumnAgreeWithSource ==
    Scanning =>
        \A i \in LexerBuilt :
            LET at == tokens[i].position
                before == SubSeq(source, 1, at.offset)
            IN  /\ at.line = 1 + Newlines(before)
                /\ at.column = at.offset - LastNewlineIndex(before)

---------------------------------------------------------------------------
(* Properties of the TokenStream *)

\* C10: after any calls the cursor is in [0, n]; consume at cursor n returns
\* none and leaves the cursor at n; hasMore() is true exactly when
\* remaining() = n - cursor is greater than 0.
C10_CursorInRange ==
    LET n == Len(stream.tokens)
        cursor == stream.currentIndex
    IN  /\ cursor \in 0..n
        /\ (result.op = "consume" /\ result.at = n) => (result.value = <<>> /\ cursor = n)
        /\ (result.op = "consume" /\ result.at < n) => cursor = result.at + 1
        /\ result.op = "hasMore" => result.value = <<n - cursor > 0>>
        /\ result.op = "remaining" => result.value = <<n - cursor>>

\* consume at the end of a stream with a checkpoint
C10_Witness ==
    /\ result.op = "consume"
    /\ result.at = Len(stream.tokens)
    /\ Len(stream.tokens) >= 2
    /\ stream.marks # <<>>

\* C11: reset(p) with p < 0 or p > n throws, without clamping, and leaves the
\* cursor, the checkpoint history and the tokens as they were; reset(p) with
\* 0 <= p <= n, p = n included, returns and sets the cursor to p, and leaves the
\* history and the tokens as they were.
C11_ResetChecksRange ==
    [][\A p \in ResetPositions :
          (result'.op = "reset" /\ arg' = <<p>>) =>
              IF p < 0 \/ p > Len(stream.tokens)
              THEN result'.value = <<"threw">> /\ stream' = stream
              ELSE /\ result'.value = <<>>
                   /\ stream' = [stream EXCEPT !.currentIndex = p]]_vars

\* reset past the end has thrown, on a stream with a checkpoint and a cursor
\* that has moved
C11_Witness ==
    /\ result.op = "reset"
    /\ arg = <<Len(stream.tokens) + 1>>
    /\ result.value = <<"threw">>
    /\ stream.marks # <<>>
    /\ stream.currentIndex > 0

\* C12: a position m that mark() has returned stays good whatever peek, consume,
\* mark, clearMarks and reset calls follow: reset(m) returns, getPosition() is
\* then m, and the tokens consume returns from there on are the ones it would
\* have returned right after the mark.
C12_MarkedPositionRestores ==
    \A i \in issued :
        /\ i[1] \in 0..Len(stream.tokens)
        /\ (result.op = "reset" /\ arg = <<i[1]>>) =>
               /\ result.value = <<>>
               /\ stream.currentIndex = i[1]
               /\ Consumed(stream) = i[2]
        /\ (result.op = "getPosition" /\ stream.currentIndex = i[1]) =>
               result.value = <<i[1]>>

\* reset to a marked position after the checkpoints were cleared and the
\* cursor had reached the end
C12_Witness ==
    /\ result.op = "reset"
    /\ result.value = <<>>
    /\ result.at = Len(stream.tokens)
    /\ stream.marks = <<>>
    /\ \E i \in issued : arg = <<i[1]>> /\ i[1] = 1 /\ Len(i[2]) = 2

\* C13: peek(k) leaves the cursor, the history and the tokens as they were and
\* returns the token at cursor + k, or none when cursor + k is outside [0, n);
\* a consume right after peek(0) returns what the peek returned; a peek
\* repeated with the same offset returns the same.
C13_PeekLooksOnly ==
    [][/\ \A k \in PeekOffsets :
             (result'.op = "peek" /\ arg' = <<k>>) =>
                 /\ stream' = stream
                 /\ LET index == stream.currentIndex + k IN
                    result'.value = IF index \in 0..(Len(stream.tokens) - 1)
                                    THEN <<stream.tokens[index + 1]>>
                                    ELSE <<>>
       /\ (result.op = "peek" /\ arg = <<0>> /\ result'.op = "consume") =>
              result'.value = result.value
       /\ (result.op = "peek" /\ result'.op = "peek" /\ arg' = arg) =>
              result'.value = result.value]_vars

\* peek(-1) has returned the token before the cursor
C13_Witness ==
    /\ result.op = "peek"
    /\ arg = <<-1>>
    /\ stream.currentIndex = 2
    /\ result.value = <<stream.tokens[2]>>

\* C14: the checkpoint history never drives the cursor: mark() appends the
\* cursor to the history and returns it without moving; reset leaves the
\* history as it is and succeeds for every position in [0, n], returned by
\* mark or not, also after clearMarks; clearMarks() empties the history and
\* leaves the cursor.
C14_HistoryIsWriteOnly ==
    [][/\ result'.op = "mark" =>
              /\ stream' = [stream EXCEPT !.marks = Append(@, stream.currentIndex)]
              /\ result'.value = <<stream.currentIndex>>
       /\ result'.op = "reset" =>
              /\ stream'.marks = stream.marks
              /\ arg'[1] \in 0..Len(stream.tokens) =>
                     result'.value = <<>> /\ stream'.currentIndex = arg'[1]
       /\ result'.op = "clearMarks" =>
              stream' = [stream EXCEPT !.marks = <<>>]]_vars

\* after clearMarks, reset has succeeded to a position mark() never returned
C14_Witness ==
    /\ result.op = "reset"
    /\ result.value = <<>>
    /\ stream.marks = <<>>
    /\ issued # {}
    /\ \A i \in issued : arg # <<i[1]>>
    /\ stream.currentIndex # result.at

---------------------------------------------------------------------------
(* Properties of Lexer.validateRules *)

Named(messages, text, type) ==
    {i \in 1..Len(messages) : messages[i] = Message(text, <<type>>)}

Uncompilable(list) ==
    {i \in 1..Len(list) : list[i].pattern.kind = "function"}

\* C15: validateRules returns a result for every rule list and never throws.
\* valid is true exactly when the list is not empty and every pattern compiles;
\* on the empty list the only error is the one that says no rules are defined;
\* every rule whose pattern does not compile gives one error that names the
\* rule's type; a type with more than one rule gives exactly one warning
\* that names it, a type with one rule none, and warnings leave valid as it is.
C15_ValidateRulesReports ==
    [][(result'.op = "validateRules" /\ result' # result) =>
          /\ Len(result'.value) = 1
          /\ LET v == result'.value[1] IN
             /\ DOMAIN v = {"valid", "errors", "warnings"}
             /\ v.valid <=> (rules # <<>> /\ Uncompilable(rules) = {})
             /\ v.valid <=> v.errors = <<>>
             /\ rules = <<>> => v.errors = <<NoRulesError>>
             /\ Len(v.errors) = Cardinality(Uncompilable(rules))
                                   + (IF rules = <<>> THEN 1 ELSE 0)
             /\ \A t \in RuleTypes :
                   /\ Cardinality(Named(v.errors, "Invalid pattern for rule", t)) =
                         Cardinality({i \in Uncompilable(rules) : rules[i].type = t})
                   /\ Cardinality(Named(v.warnings, "Multiple rules defined for type", t)) =
                         (IF Count(rules, t) > 1 THEN 1 ELSE 0)
             /\ Len(v.warnings) = Cardinality({t \in RuleTypes : Count(rules, t) > 1})]_vars

\* a valid result with a warning: two rules of one type, both compile
C15_Witness ==
    /\ result.op = "validateRules"
    /\ result.value[1].valid
    /\ Len(result.value[1].warnings) = 1
    /\ Len(rules) = 2
    /\ rules[1] # rules[2]

---------------------------------------------------------------------------
(* Properties of Lexer.getRules *)

\* C16: getRules returns an independent snapshot: whatever the caller does
\* through the returned array (entries added, removed, reordered, the
\* precedence of a returned rule changed), the Lexer's rule list is the one it
\* was when getRules returned, and it is sorted by precedence.
C16_ReturnedArrayIndependent ==
    returned # NoArray =>
        /\ rules = returned.rules
        /\ SortedByPrecedence(rules)

---------------------------------------------------------------------------
(* Properties of tokenize called again *)

\* C17: the stream of a tokenize call, once returned, is left as it is by
\* every later updateConfig, addRule, removeRule and tokenize; and the next
\* tokenize works with the settings and rules as updated: the Lexer holds the
\* settings the caller supplied last and the rules registered and not removed,
\* a match is a text the pattern describes under the caseSensitive supplied
\* last, a character is skipped only when skipWhitespace as supplied last is
\* not false, and with skipWhitespace true no whitespace character reaches the
\* rules.
C17_StreamKeptSettingsUpdated ==
    [][/\ kept # NoKept => kept' = kept
       /\ config' = asked'
       /\ \A p \in Precedences : WithPrec(rules', p) = WithPrec(registered', p)
       /\ (pc = "scan" /\ pc' = "scan") =>
              /\ last'.kind = "match" =>
                     Describes(rules[last'.rule].pattern, last'.text, ~asked.caseSensitive)
              /\ last'.kind = "ws" => asked.skipWhitespace.kind # "false"
              /\ asked.skipWhitespace = SkipAll =>
                     (last'.kind = "ws" <=> IsWhitespace(source[offset + 1]))]_vars

\* the second call, on the source of the first, after caseSensitive was
\* changed and a rule added, has returned other tokens; the stream kept from
\* the first call has its own
C17_Witness ==
    /\ pc = "done"
    /\ kept # NoKept
    /\ kept.source = source
    /\ kept.config.caseSensitive # config.caseSensitive
    /\ Len(kept.rules) < Len(rules)
    /\ kept.stream.tokens # stream.tokens
    /\ kept.stream.tokens # <<>>

\* C18: tokenize is deterministic: a second call on the same Lexer with the
\* same source, the rules and settings being what they were at the first,
\* returns a token sequence equal to the first call's, for every
\* skipWhitespace setting, a supplied expression included; and every returned
\* stream starts at cursor 0 with an empty checkpoint history.
C18_TokenizeDeterministic ==
    pc = "done" =>
        /\ stream.currentIndex = 0
        /\ stream.marks = <<>>
        /\ (kept # NoKept /\ kept.source = source /\ kept.rules = rules
                /\ kept.config = config) =>
               stream.tokens = kept.stream.tokens

---------------------------------------------------------------------------
(* Properties of whitespace skipping and of suppressed matches *)

\* whether the character is whitespace under the skipWhitespace setting: any
\* whitespace when the setting is true, a character the expression matches
\* when it is an expression, none when it is false
SkippedCharacter(c) ==
    IF config.skipWhitespace.kind = "true" THEN IsWhitespace(c)
    ELSE IF config.skipWhitespace.kind = "regexp"
    THEN StringMatch(<<c>>, config.skipWhitespace).found
    ELSE FALSE

\* C21: whitespace skipping comes before rule matching: at an offset whose
\* character is whitespace under the setting (true: any whitespace, an
\* expression: a character it matches) the scan skips one character and tries
\* no rule, so no match, ERROR token or compile failure starts there, whatever
\* the rules; at every other offset - with skipWhitespace false, at every
\* offset - nothing is skipped and the rules are tried.  A whitespace
\* character is consumed by a rule only inside a match that started at an
\* offset that was not skipped.
C21_WhitespaceBeforeRules ==
    /\ Scanning =>
           \A i \in 1..Len(spans) :
               spans[i].kind = "ws" <=> SkippedCharacter(source[spans[i].start + 1])
    /\ pc = "threw" => ~SkippedCharacter(source[last.at + 1])

\* C22: when the action of the winning rule returns null, no token is appended
\* for the match and no later rule is tried at the offset, and the match is
\* consumed all the same: the offset advances by the length of the matched
\* text and line and column move as they do for every match, emitted or not
\* (line by the newlines of the text, column to the characters after its last
\* newline, or by its length when it has none), so that the next token gets
\* the position after the suppressed text.
C22_SuppressedMatchConsumed ==
    [][(pc = "scan" /\ offset' > offset /\ last'.kind = "match") =>
          LET rule == rules[last'.rule]
              text == last'.text
          IN  /\ \A j \in 1..(last'.rule - 1) : ~Succeeds(rules[j], offset)
              /\ text = MatchedText(rule, offset)
              /\ spans' = Append(spans, Span("match", offset, Len(text)))
              /\ offset' = offset + Len(text)
              /\ line' = line + Newlines(text)
              /\ column' = IF Newlines(text) = 0
                            THEN column + Len(text)
                            ELSE Len(text) - LastNewlineIndex(text)
              /\ IF rule.action = "null"
                 THEN tokens' = tokens
                 ELSE /\ Len(tokens') = Len(tokens) + 1
                      /\ SubSeq(tokens', 1, Len(tokens)) = tokens
                      /\ PassesPosition(rule) =>
                            tokens'[Len(tokens')].position = Position(line, column, offset)]_vars

\* a suppressed match with a newline, at an offset where a later rule would
\* have matched too, and the only token of the call begins on line 2
C22_Witness ==
    /\ pc = "done"
    /\ Len(spans) = 2
    /\ Len(tokens) = 1
    /\ tokens[1].position = Position(2, 1, 1)
    /\ \E k \in 1..Len(rules) :
          /\ rules[k].action = "null"
          /\ Succeeds(rules[k], 0)
          /\ Newlines(MatchedText(rules[k], 0)) = 1
          /\ \A j \in 1..(k - 1) : ~Succeeds(rules[j], 0)
          /\ \E j \in (k + 1)..Len(rules) : Succeeds(rules[j], 0)

===========================================================================
